---- MODULE Spec2Model ----
(***************************************************************************)
(* A model of the two-stage front end of parsing-test: the character-level *)
(* Tokenizer (src/src/tokenizer/mod.rs) and the Pratt expression Parser    *)
(* (src/src/parser/mod.rs).                                                *)
(*                                                                         *)
(* Characters are one-character strings, the source text is a sequence of  *)
(* characters (ASCII, so a byte offset is a character index; offsets are   *)
(* 0-based as in the code, sequences 1-based as in TLA+).                  *)
(***************************************************************************)
EXTENDS Integers, Sequences, FiniteSets, TLC

VARIABLES
    tok,             \* the Tokenizer struct
    diagnostics,     \* the diagnostics sink the tokenizer extends
    pc,              \* where the tokenizer's control is
    loc,             \* the locals of the scanning loop in progress
    items,           \* the Some(..) items the token iterator has returned
    nones,           \* how many times the token iterator has returned None
    iter,            \* what the Parser's T is: "tokenizer" or "vec"
    parser,          \* the Parser struct: its Peekable cursor over T
    result,          \* what Parser::expr() returned (NotYet before it has)
    overflow_checks  \* build profile: TRUE = debug (overflow panics)

vars == <<tok, diagnostics, pc, loc, items, nones, iter, parser, result,
          overflow_checks>>

-----------------------------------------------------------------------------
(* Characters *)

NoChar == "None"          \* Option<char>::None
NL  == "\n"
TAB == "\t"
NUL == "NUL"               \* the character '\0'
DQ  == "\""
SQ  == "'"
BS  == "\\"

DigitStr == <<"0", "1", "2", "3", "4", "5", "6", "7", "8", "9">>
Digits == {DigitStr[i] : i \in 1..10}
\* c as u64 - '0' as u64
DigitValue(c) == (CHOOSE i \in 1..10 : DigitStr[i] = c) - 1

Letters == {"a", "b", "c", "d", "e", "f", "g", "h", "i", "j", "k", "l", "m",
            "n", "o", "p", "q", "r", "s", "t", "u", "v", "w", "x", "y", "z",
            "A", "B", "C", "D", "E", "F", "G", "H", "I", "J", "K", "L", "M",
            "N", "O", "P", "Q", "R", "S", "T", "U", "V", "W", "X", "Y", "Z"}
IdentStart == Letters \cup {"_"}
IdentCont  == Letters \cup {"_"} \cup Digits
WhiteChars == {" ", TAB, NL}

-----------------------------------------------------------------------------
(* u64 arithmetic: a u64 is four 16-bit limbs, least significant first *)

LimbBase == 65536
Zero64 == <<0, 0, 0, 0>>
U64(n) == <<n % LimbBase, (n \div LimbBase) % LimbBase, 0, 0>>

\* int_part * 10 + d, with the carry out of bit 63
MulAdd10(x, d) ==
    LET a1 == x[1] * 10 + d
        a2 == x[2] * 10 + (a1 \div LimbBase)
        a3 == x[3] * 10 + (a2 \div LimbBase)
        a4 == x[4] * 10 + (a3 \div LimbBase)
    IN  [value |-> <<a1 % LimbBase, a2 % LimbBase, a3 % LimbBase, a4 % LimbBase>>,
         overflow |-> (a4 \div LimbBase) > 0]

\* the decimal digits of a u64, most significant first, without leading zeros
DivMod10(x) ==
    LET c4 == x[4]
        c3 == (c4 % 10) * LimbBase + x[3]
        c2 == (c3 % 10) * LimbBase + x[2]
        c1 == (c2 % 10) * LimbBase + x[1]
    IN  [q |-> <<c1 \div 10, c2 \div 10, c3 \div 10, c4 \div 10>>, r |-> c1 % 10]

RECURSIVE Decimal(_)
Decimal(x) ==
    LET d == DivMod10(x)
    IN  IF d.q = Zero64 THEN <<DigitStr[d.r + 1]>>
        ELSE Append(Decimal(d.q), DigitStr[d.r + 1])

-----------------------------------------------------------------------------
(* Token types *)

TyIdentifier == [kind |-> "Identifier"]
TyWhitespace == [kind |-> "Whitespace"]
TyPunctuation(p) == [kind |-> "Punctuation", p |-> p]
TyDelimeter(ty, side) == [kind |-> "Delimeter", ty |-> ty, side |-> side]
TyLiteral(v) == [kind |-> "Literal", value |-> v]
TyComment(c) == [kind |-> "Comment", c |-> c]
TyOperator(op) == [kind |-> "Operator", op |-> op]
TyKeyword(k) == [kind |-> "Keyword", k |-> k]

LitInteger(v) == [lit |-> "Number", num |-> [kind |-> "Integer", value |-> v]]
\* a Real is kept as its integer part and the digits of its fraction
LitReal(v, frac) == [lit |-> "Number", num |-> [kind |-> "Real", value |-> v, frac |-> frac]]
LitString(s) == [lit |-> "String", s |-> s]
LitChar(c) == [lit |-> "Char", c |-> c]

\* TokenizerItem
ItemOk(position, ty) == [ok |-> TRUE, position |-> position, ty |-> ty]
ItemErr(e) == [ok |-> FALSE, err |-> e]
ErrUnfinishedString == [e |-> "UnfinishedString"]
ErrUnfinishedChar == [e |-> "UnfinishedChar"]
ErrUnexpected(c) == [e |-> "Unexpected", c |-> c]

get_keyword(s) == IF s = <<"_">> THEN [some |-> TRUE, k |-> "Underscore"]
                  ELSE [some |-> FALSE]

escape(c) == CASE c = "n" -> [some |-> TRUE, s |-> <<NL>>]
               [] c = "t" -> [some |-> TRUE, s |-> <<TAB>>]
               [] c = "0" -> [some |-> TRUE, s |-> <<NUL>>]
               [] OTHER   -> [some |-> FALSE]

-----------------------------------------------------------------------------
(* The operators and the punctuation, with their texts *)

Operators ==
    {"Plus", "Minus", "DoublePlus", "DoubleMinus", "Tilda", "Bang", "Star", "Slash",
     "BangEquals", "RightShift", "LesserThan", "DoubleStar", "DoubleAnd", "DoubleOr",
     "DoubleEquals", "GreaterThan", "Caret", "Percent", "SingleAnd", "SingleOr",
     "LeftShift", "Equals", "PlusEquals", "MinusEquals", "StarEquals", "SlashEquals",
     "TildaEquals", "DoubleStarEquals", "DoubleAndEquals", "DoubleOrEquals",
     "LesserThanEquals", "GreaterThanEquals", "CaretEquals", "PercentEquals",
     "SingleAndEquals", "SingleOrEquals", "LeftShiftEquals", "RightShiftEquals"}

DisplayOperator(op) ==
    CASE op = "Plus" -> <<"+">>
      [] op = "Minus" -> <<"-">>
      [] op = "DoublePlus" -> <<"+", "+">>
      [] op = "DoubleMinus" -> <<"-", "-">>
      [] op = "Tilda" -> <<"~">>
      [] op = "Bang" -> <<"!">>
      [] op = "Star" -> <<"*">>
      [] op = "Slash" -> <<"/">>
      [] op = "BangEquals" -> <<"!", "=">>
      [] op = "RightShift" -> <<">", ">">>
      [] op = "LesserThan" -> <<"<">>
      [] op = "DoubleStar" -> <<"*", "*">>
      [] op = "DoubleAnd" -> <<"&", "&">>
      [] op = "DoubleOr" -> <<"|", "|">>
      [] op = "DoubleEquals" -> <<"=", "=">>
      [] op = "GreaterThan" -> <<">">>
      [] op = "Caret" -> <<"^">>
      [] op = "Percent" -> <<"%">>
      [] op = "SingleAnd" -> <<"&">>
      [] op = "SingleOr" -> <<"|">>
      [] op = "LeftShift" -> <<"<", "<">>
      [] op = "Equals" -> <<"=">>
      [] op = "PlusEquals" -> <<"+", "=">>
      [] op = "MinusEquals" -> <<"-", "=">>
      [] op = "StarEquals" -> <<"*", "=">>
      [] op = "SlashEquals" -> <<"/", "=">>
      [] op = "TildaEquals" -> <<"~", "=">>
      [] op = "DoubleStarEquals" -> <<"*", "*", "=">>
      [] op = "DoubleAndEquals" -> <<"&", "&", "=">>
      [] op = "DoubleOrEquals" -> <<"|", "|", "=">>
      [] op = "LesserThanEquals" -> <<"<", "=">>
      [] op = "GreaterThanEquals" -> <<">", "=">>
      [] op = "CaretEquals" -> <<"^", "=">>
      [] op = "PercentEquals" -> <<"%", "=">>
      [] op = "SingleAndEquals" -> <<"&", "=">>
      [] op = "SingleOrEquals" -> <<"|", "=">>
      [] op = "LeftShiftEquals" -> <<"<", "<", "=">>
      [] op = "RightShiftEquals" -> <<">", ">", "=">>

\* a lexeme: a text and the type of the token it is
Lexeme(txt, ty) == [text |-> txt, ty |-> ty]

OperatorLexemes == {Lexeme(DisplayOperator(op), TyOperator(op)) : op \in Operators}

PunctuationLexemes ==
    {Lexeme(<<";">>, TyPunctuation("Semicolon")),
     Lexeme(<<",">>, TyPunctuation("Comma")),
     Lexeme(<<":">>, TyPunctuation("Colon")),
     Lexeme(<<"=", ">">>, TyPunctuation("FatArrow")),
     Lexeme(<<".">>, TyPunctuation("Dot")),
     Lexeme(<<".", ".">>, TyPunctuation("DoubleDot")),
     Lexeme(<<".", ".", ".">>, TyPunctuation("TripleDot")),
     Lexeme(<<"#">>, TyPunctuation("HashSymbol")),
     Lexeme(<<"@">>, TyPunctuation("AtSign")),
     Lexeme(<<"?">>, TyPunctuation("QuestionMark")),
     Lexeme(<<"$">>, TyPunctuation("Dollar")),
     Lexeme(<<"$", "$">>, TyPunctuation("DoubleDollar"))}

LexemeTable == OperatorLexemes \cup PunctuationLexemes

\* the characters of the table's lexemes
LexemeChars == UNION {{l.text[i] : i \in 1..Len(l.text)} : l \in LexemeTable}

-----------------------------------------------------------------------------
(* The Tokenizer's cursor operations, on a Tokenizer struct t *)

Text(t) == t.source.text

TokenizerNew(text) ==
    [source |-> [name |-> "src", text |-> text],
     chrs |-> 0,
     newlines |-> <<0>>,
     emit_comments |-> FALSE,
     emit_whitespace |-> FALSE,
     token_start |-> 0,
     token_end |-> 0,
     start_line |-> 1,
     start_column |-> 1]

pos(t) ==
    [absolute_position |-> t.token_start,
     line |-> t.start_line,
     column |-> t.start_column,
     text |-> SubSeq(Text(t), t.token_start + 1, t.token_end + 1)]

peek_char(t) == IF t.chrs < Len(Text(t)) THEN Text(t)[t.chrs + 1] ELSE NoChar

\* the struct after next_char(); the character returned is peek_char(t)
next_char(t) ==
    IF t.chrs < Len(Text(t))
    THEN [t EXCEPT !.newlines = IF Text(t)[t.chrs + 1] = NL
                                THEN Append(@, t.chrs) ELSE @,
                   !.token_end = t.chrs,
                   !.chrs = @ + 1]
    ELSE t

\* the struct after eat(v); eat returned TRUE iff peek_char(t) = v
eat(t, v) == IF peek_char(t) = v THEN next_char(t) ELSE t

consume(t) ==
    LET ts == t.token_end + 1
    IN  [t EXCEPT !.token_start = ts,
                  !.token_end = ts,
                  !.start_line = Len(t.newlines),
                  !.start_column = ts - t.newlines[Len(t.newlines)]]

NoLoc == [int_part |-> Zero64, frac |-> <<>>, s |-> <<>>, escaped |-> FALSE,
          pch |-> NoChar, nest |-> 0]

-----------------------------------------------------------------------------
(* get_token_inner: the tokens scanned without a loop.  c is the first     *)
(* character, t the struct after it was taken.  The result is the struct   *)
(* after the token's last character and the token's type.                  *)

Scanned(t, ty) == [t |-> t, ty |-> ty]

\* an eat that never finds its character
EatOr_never(t, second, yes, no) == Scanned(t, no)

\* `if self.eat(second) { yes } else { no }`
EatOr(t, second, yes, no) ==
    IF peek_char(t) = second THEN Scanned(next_char(t), yes) ELSE Scanned(t, no)

FixedStart == {"(", ")", "[", "]", "{", "}", "@", ",", ";", ":", "#", "?", "$",
               "=", ".", "+", "-", "*", "!", "~", "^", "%", "/", "&", "|", "<", ">"}

scan_fixed(t, c) ==
    LET p == peek_char(t)
        t1 == next_char(t)
    IN
    CASE c = "(" -> Scanned(t, TyDelimeter("Parentheses", "Left"))
      [] c = ")" -> Scanned(t, TyDelimeter("Parentheses", "Right"))
      [] c = "[" -> Scanned(t, TyDelimeter("Square", "Left"))
      [] c = "]" -> Scanned(t, TyDelimeter("Square", "Right"))
      [] c = "{" -> Scanned(t, TyDelimeter("Curly", "Left"))
      [] c = "}" -> Scanned(t, TyDelimeter("Curly", "Right"))
      [] c = "@" -> Scanned(t, TyPunctuation("AtSign"))
      [] c = "," -> Scanned(t, TyPunctuation("Comma"))
      [] c = ";" -> Scanned(t, TyPunctuation("Semicolon"))
      [] c = ":" -> Scanned(t, TyPunctuation("Colon"))
      [] c = "#" -> Scanned(t, TyPunctuation("HashSymbol"))
      [] c = "?" -> Scanned(t, TyPunctuation("QuestionMark"))
      [] c = "$" -> EatOr(t, "$", TyPunctuation("DoubleDollar"), TyPunctuation("Dollar"))
      [] c = "=" -> CASE p = ">" -> Scanned(t1, TyPunctuation("FatArrow"))
                      [] p = "=" -> Scanned(t1, TyOperator("DoubleEquals"))
                      [] OTHER   -> Scanned(t, TyOperator("Equals"))
      [] c = "." -> IF p = "."
                    THEN EatOr(t1, ".", TyPunctuation("TripleDot"), TyPunctuation("DoubleDot"))
                    ELSE Scanned(t, TyPunctuation("Dot"))
      [] c = "+" -> CASE p = "=" -> Scanned(t1, TyOperator("PlusEquals"))
                      [] p = "+" -> Scanned(t1, TyOperator("DoublePlus"))
                      [] OTHER   -> Scanned(t, TyOperator("Plus"))
      [] c = "-" -> CASE p = "=" -> Scanned(t1, TyOperator("MinusEquals"))
                      [] p = "-" -> Scanned(t1, TyOperator("DoubleMinus"))
                      [] OTHER   -> Scanned(t, TyOperator("Minus"))
      [] c = "*" -> CASE p = "=" -> Scanned(t1, TyOperator("StarEquals"))
                      [] p = "*" -> EatOr(t1, "=", TyOperator("DoubleStarEquals"),
                                          TyOperator("DoubleStar"))
                      [] OTHER   -> Scanned(t, TyOperator("Star"))
      [] c = "!" -> EatOr(t, "=", TyOperator("BangEquals"), TyOperator("Bang"))
      [] c = "~" -> EatOr(t, "=", TyOperator("TildaEquals"), TyOperator("Tilda"))
      [] c = "^" -> EatOr(t, "=", TyOperator("CaretEquals"), TyOperator("Caret"))
      [] c = "%" -> EatOr(t, "=", TyOperator("PercentEquals"), TyOperator("Percent"))
      \* '/' followed by '*' or '/' starts a comment: see GetTokenInner
      [] c = "/" -> CASE p = "=" -> Scanned(t1, TyOperator("SlashEquals"))
                      [] OTHER   -> Scanned(t, TyOperator("Slash"))
      [] c = "&" -> CASE p = "&" -> EatOr(t1, "=", TyOperator("DoubleAndEquals"),
                                          TyOperator("DoubleAnd"))
                      [] p = "=" -> Scanned(t1, TyOperator("SingleAndEquals"))
                      [] OTHER   -> Scanned(t, TyOperator("SingleAnd"))
      [] c = "|" -> CASE p = "|" -> EatOr(t1, "=", TyOperator("DoubleOrEquals"),
                                          TyOperator("DoubleOr"))
                      [] p = "=" -> Scanned(t1, TyOperator("SingleOrEquals"))
                      [] OTHER   -> Scanned(t, TyOperator("SingleOr"))
      [] c = "<" -> CASE p = "=" -> Scanned(t1, TyOperator("LesserThanEquals"))
                      [] p = "<" -> EatOr(t1, "=", TyOperator("LeftShiftEquals"),
                                          TyOperator("LeftShift"))
                      [] OTHER   -> Scanned(t, TyOperator("LesserThan"))
      [] c = ">" -> CASE p = "=" -> Scanned(t1, TyOperator("GreaterThanEquals"))
                      [] p = ">" -> EatOr(t1, "=", TyOperator("RightShiftEquals"),
                                          TyOperator("RightShift"))
                      [] OTHER   -> Scanned(t, TyOperator("GreaterThan"))

\* char_lit, entered after the opening quote: Ok(c) with the struct after
\* it, or Err(UnfinishedChar)
char_lit(t) ==
    LET first == peek_char(t)
        t1 == next_char(t)
    IN  IF first = NoChar THEN [ok |-> FALSE, t |-> t1]
        ELSE LET c == IF first = BS THEN peek_char(t1) ELSE first
             IN  IF c = NoChar THEN [ok |-> FALSE, t |-> t1]
                 ELSE IF peek_char(t1) = SQ
                      THEN [ok |-> TRUE, t |-> next_char(t1), c |-> c]
                      ELSE [ok |-> FALSE, t |-> t1]

-----------------------------------------------------------------------------
(* get_token: what follows get_token_inner's return *)

\* a get_token that discards whitespace only when comments are discarded too
Filtered_coupled(t, item) ==
    /\ item.ok
    /\ \/ item.ty.kind = "Whitespace" /\ ~t.emit_whitespace /\ ~t.emit_comments
       \/ item.ty.kind = "Comment" /\ ~t.emit_comments

Filtered(t, item) ==
    /\ item.ok
    /\ \/ item.ty.kind = "Whitespace" /\ ~t.emit_whitespace
       \/ item.ty.kind = "Comment" /\ ~t.emit_comments

\* get_token_inner returned Some(item) with the struct at t: consume(), then
\* scan again if the item is filtered, else return it
Yield(t, item) ==
    /\ tok' = consume(t)
    /\ loc' = NoLoc
    /\ IF Filtered(t, item)
       THEN pc' = "get_token" /\ UNCHANGED <<items, nones>>
       ELSE pc' = "idle" /\ items' = Append(items, item) /\ UNCHANGED nones

ReturnToken(t, ty) == Yield(t, ItemOk(pos(t), ty))
ReturnErr(t, e) == Yield(t, ItemErr(e))

\* get_token_inner returned None
ReturnNone(t) ==
    /\ tok' = consume(t)
    /\ loc' = NoLoc
    /\ pc' = "idle"
    /\ nones' = nones + 1
    /\ UNCHANGED items

-----------------------------------------------------------------------------
(* The tokenizer's steps *)

TokFrame == UNCHANGED <<iter, parser, result, overflow_checks>>

\* get_token's loop top: get_token_inner takes the first character and
\* dispatches on it
GetTokenInner ==
    /\ pc = "get_token"
    /\ LET c == peek_char(tok)
           t1 == next_char(tok)
       IN  CASE c = NoChar ->
                  ReturnNone(t1) /\ UNCHANGED diagnostics
             [] c \in WhiteChars ->
                  /\ tok' = t1 /\ pc' = "whitespace"
                  /\ UNCHANGED <<loc, items, nones, diagnostics>>
             [] c \in IdentStart ->
                  /\ tok' = t1 /\ pc' = "identifier"
                  /\ UNCHANGED <<loc, items, nones, diagnostics>>
             [] c \in Digits ->
                  /\ tok' = t1 /\ pc' = "number"
                  /\ loc' = [NoLoc EXCEPT !.int_part = U64(DigitValue(c))]
                  /\ UNCHANGED <<items, nones, diagnostics>>
             [] c = SQ ->
                  LET r == char_lit(t1)
                  IN  /\ IF r.ok THEN ReturnToken(r.t, TyLiteral(LitChar(r.c)))
                                 ELSE ReturnErr(r.t, ErrUnfinishedChar)
                      /\ UNCHANGED diagnostics
             [] c = DQ ->
                  /\ tok' = t1 /\ pc' = "string_lit"
                  /\ loc' = NoLoc
                  /\ UNCHANGED <<items, nones, diagnostics>>
             [] c = "/" /\ peek_char(t1) = "*" ->
                  \* multiline_comment's `let Some(mut pc) = self.next_char()`
                  /\ tok' = next_char(t1) /\ pc' = "multiline_comment"
                  /\ loc' = [NoLoc EXCEPT !.pch = peek_char(t1), !.nest = 1]
                  /\ UNCHANGED <<items, nones, diagnostics>>
             [] c = "/" /\ peek_char(t1) = "/" ->
                  /\ tok' = t1 /\ pc' = "singleline_comment"
                  /\ UNCHANGED <<loc, items, nones, diagnostics>>
             [] c \in FixedStart /\ ~(c = "/" /\ peek_char(t1) \in {"*", "/"}) ->
                  LET r == scan_fixed(t1, c)
                  IN  ReturnToken(r.t, r.ty) /\ UNCHANGED diagnostics
             [] OTHER ->
                  ReturnErr(t1, ErrUnexpected(c)) /\ UNCHANGED diagnostics
    /\ TokFrame

\* one turn of the whitespace loop
WhitespaceStep ==
    /\ pc = "whitespace"
    /\ IF peek_char(tok) \in WhiteChars
       THEN tok' = next_char(tok) /\ UNCHANGED <<pc, loc, items, nones>>
       ELSE ReturnToken(tok, TyWhitespace)
    /\ UNCHANGED diagnostics
    /\ TokFrame

\* one turn of the identifier loop
IdentifierStep ==
    /\ pc = "identifier"
    /\ IF peek_char(tok) \in IdentCont
       THEN tok' = next_char(tok) /\ UNCHANGED <<pc, loc, items, nones>>
       ELSE LET k == get_keyword(pos(tok).text)
            IN  ReturnToken(tok, IF k.some THEN TyKeyword(k.k) ELSE TyIdentifier)
    /\ UNCHANGED diagnostics
    /\ TokFrame

\* one turn of number()'s integer loop; on a u64 overflow a build with
\* overflow checks panics and a build without them wraps
NumberStep ==
    /\ pc = "number"
    /\ LET c == peek_char(tok)
           m == MulAdd10(loc.int_part, DigitValue(c))
       IN  CASE c \in Digits /\ m.overflow /\ overflow_checks ->
                  pc' = "panic" /\ UNCHANGED <<tok, loc, items, nones>>
             [] c \in Digits /\ ~(m.overflow /\ overflow_checks) ->
                  /\ loc' = [loc EXCEPT !.int_part = m.value]
                  /\ tok' = next_char(tok)
                  /\ UNCHANGED <<pc, items, nones>>
             [] c = "_" ->
                  tok' = next_char(tok) /\ UNCHANGED <<pc, loc, items, nones>>
             [] OTHER ->
                  IF c = "."
                  THEN tok' = next_char(tok) /\ pc' = "number_frac"
                       /\ UNCHANGED <<loc, items, nones>>
                  ELSE ReturnToken(tok, TyLiteral(LitInteger(loc.int_part)))
    /\ UNCHANGED diagnostics
    /\ TokFrame

\* one turn of number()'s fraction loop
NumberFracStep ==
    /\ pc = "number_frac"
    /\ LET c == peek_char(tok)
       IN  CASE c \in Digits ->
                  /\ loc' = [loc EXCEPT !.frac = Append(@, c)]
                  /\ tok' = next_char(tok)
                  /\ UNCHANGED <<pc, items, nones>>
             [] c = "_" ->
                  tok' = next_char(tok) /\ UNCHANGED <<pc, loc, items, nones>>
             [] OTHER ->
                  ReturnToken(tok, TyLiteral(LitReal(loc.int_part, loc.frac)))
    /\ UNCHANGED diagnostics
    /\ TokFrame

\* How many characters the String of string_lit may hold before the
\* allocation fails
MaxStrBuf == 4

\* one turn of string_lit's loop: it looks at the next character with
\* peek_char and never takes it
StringLitStep ==
    /\ pc = "string_lit"
    /\ LET c == peek_char(tok)
           e == escape(c)
       IN  CASE c = NoChar ->
                  ReturnErr(tok, ErrUnfinishedString)
             [] c = DQ /\ ~loc.escaped ->
                  ReturnToken(tok, TyLiteral(LitString(loc.s)))
             [] c = BS /\ ~loc.escaped ->
                  /\ loc' = [loc EXCEPT !.escaped = TRUE]
                  /\ UNCHANGED <<tok, pc, items, nones>>
             [] OTHER ->
                  IF Len(loc.s) >= MaxStrBuf
                  THEN pc' = "abort" /\ UNCHANGED <<tok, loc, items, nones>>
                  ELSE /\ loc' = [loc EXCEPT
                                    !.s = IF loc.escaped /\ e.some THEN @ \o e.s
                                          ELSE Append(@, c),
                                    !.escaped = FALSE]
                       /\ UNCHANGED <<tok, pc, items, nones>>
    /\ UNCHANGED diagnostics
    /\ TokFrame

Diagnostic(ty, position) == [ty |-> ty, position |-> position]

\* one turn of multiline_comment's loop, and at its exit the rest of the
\* '/' '*' arm of get_token_inner
MultilineCommentStep ==
    /\ pc = "multiline_comment"
    /\ LET c == peek_char(tok)
           t1 == next_char(tok)
       IN  CASE c = NoChar ->
                  \* closed = false
                  /\ diagnostics' = Append(diagnostics,
                         Diagnostic("UnclosedMultilineComment", pos(tok)))
                  /\ ReturnToken(tok, TyComment("MultiLine"))
             [] c # NoChar /\ loc.pch = "*" /\ c = "/" ->
                  IF loc.nest - 1 = 0
                  THEN ReturnToken(t1, TyComment("MultiLine"))
                       /\ UNCHANGED diagnostics
                  ELSE /\ tok' = t1
                       /\ loc' = [loc EXCEPT !.nest = @ - 1, !.pch = c]
                       /\ UNCHANGED <<pc, items, nones, diagnostics>>
             [] c # NoChar /\ loc.pch = "/" /\ c = "*" ->
                  /\ tok' = t1
                  /\ loc' = [loc EXCEPT !.nest = @ + 1, !.pch = c]
                  /\ UNCHANGED <<pc, items, nones, diagnostics>>
             [] OTHER ->
                  /\ tok' = t1
                  /\ loc' = [loc EXCEPT !.pch = c]
                  /\ UNCHANGED <<pc, items, nones, diagnostics>>
    /\ TokFrame

\* one turn of singleline_comment's loop: at end of input peek_char is None,
\* which is not Some('\n'), and next_char takes nothing
SinglelineCommentStep ==
    /\ pc = "singleline_comment"
    /\ IF peek_char(tok) # NL
       THEN tok' = next_char(tok) /\ UNCHANGED <<pc, loc, items, nones>>
       ELSE ReturnToken(tok, TyComment("SingleLine"))
    /\ UNCHANGED diagnostics
    /\ TokFrame

TokenizerStep ==
    \/ GetTokenInner
    \/ WhitespaceStep
    \/ IdentifierStep
    \/ NumberStep
    \/ NumberFracStep
    \/ StringLitStep
    \/ MultilineCommentStep
    \/ SinglelineCommentStep

-----------------------------------------------------------------------------
(* The caller of the token iterator, and the initial states *)

NotYet == [kind |-> "NotYet"]
\* Peekable::new: nothing pulled from T, nothing buffered
PeekableNew == [pulled |-> 0, peeked |-> FALSE]
ParserNew == [tokenizer |-> PeekableNew]

\* How many times the caller asks again after the iterator returned None
MaxCallsAfterEnd == 2

\* Iterator::next on the Tokenizer, called by a loop over the tokens
IteratorNext ==
    /\ pc = "idle"
    /\ nones <= MaxCallsAfterEnd
    /\ pc' = "get_token"
    /\ UNCHANGED <<tok, diagnostics, loc, items, nones>>
    /\ TokFrame

BoundedSeq(A, n) == UNION {[1..k -> A] : k \in 0..n}

TokInput(text, ew, ec, oc) ==
    [text |-> text, emit_whitespace |-> ew, emit_comments |-> ec,
     overflow_checks |-> oc]

\* texts over a mixed alphabet, with everything emitted and as
\* Tokenizer::new sets the flags
MaxMixedLen == 3
MixedAlphabet == {"a", "_", "1", " ", NL, "/", "*", "=", ".", "\\"}
MixedInputs(n) ==
    {TokInput(s, e, e, TRUE) :
        s \in BoundedSeq(MixedAlphabet, n), e \in BOOLEAN}

\* texts that start a multi-line comment
MaxCommentLen == 6
CommentAlphabet == {"/", "*", "a"}
CommentInputs(n) ==
    {TokInput(<<"/", "*">> \o s, FALSE, ec, TRUE) :
        s \in BoundedSeq(CommentAlphabet, n), ec \in BOOLEAN}

\* texts made of whole lexemes, under every setting of the two flags
MaxLexemes == 3
Lexemes == {<<"/", "*", "*", "/">>, <<"/", "/", "a", NL>>, <<" ">>, <<NL>>,
            <<"a">>, <<"+">>}
RECURSIVE Concat(_)
Concat(ss) == IF ss = <<>> THEN <<>> ELSE Head(ss) \o Concat(Tail(ss))
LexemeInputs(n) ==
    {TokInput(Concat(ls), ew, ec, TRUE) :
        ls \in BoundedSeq(Lexemes, n), ew \in BOOLEAN, ec \in BOOLEAN}

\* texts that start a string literal, and texts that start a character literal
MaxQuotedLen == 4
QuotedAlphabet == {DQ, SQ, BS, "a", "n"}
QuotedInputs(n) ==
    {TokInput(<<q>> \o s, e, e, TRUE) :
        q \in {DQ, SQ}, s \in BoundedSeq(QuotedAlphabet, n), e \in BOOLEAN}

\* integer literals: short ones, and ones around u64::MAX =
\* 18446744073709551615
MaxNumLen == 3
NumAlphabet == {"0", "5", "6", "9", "_"}
U64MaxHead == <<"1", "8", "4", "4", "6", "7", "4", "4", "0", "7", "3", "7", "0",
                "9", "5", "5", "1", "6", "1">>
NumInputs(n) ==
    {TokInput(p \o s, FALSE, FALSE, oc) :
        p \in {<<"0">>, <<"1">>, <<"7">>, U64MaxHead},
        s \in BoundedSeq(NumAlphabet, n), oc \in BOOLEAN}

\* a lexeme of the table followed by up to MaxOpTail of the table's characters
MaxOpTail == 1
OperatorInputs(n) ==
    {TokInput(l.text \o s, TRUE, TRUE, TRUE) :
        l \in LexemeTable, s \in BoundedSeq(LexemeChars, n)}


InitWith(in) ==
    /\ tok = [TokenizerNew(in.text) EXCEPT !.emit_whitespace = in.emit_whitespace,
                                           !.emit_comments = in.emit_comments]
    /\ overflow_checks = in.overflow_checks
    /\ diagnostics = <<>>
    /\ pc = "idle"
    /\ loc = NoLoc
    /\ items = <<>>
    /\ nones = 0
    /\ iter = "tokenizer"
    /\ parser = ParserNew
    /\ result = NotYet

InitTok ==
    \/ \E in \in MixedInputs(MaxMixedLen) : InitWith(in)
    \/ \E in \in CommentInputs(MaxCommentLen) : InitWith(in)
    \/ \E in \in LexemeInputs(MaxLexemes) : InitWith(in)
    \/ \E in \in QuotedInputs(MaxQuotedLen) : InitWith(in)
    \/ \E in \in NumInputs(MaxNumLen) : InitWith(in)
    \/ \E in \in OperatorInputs(MaxOpTail) : InitWith(in)

NextTok == IteratorNext \/ TokenizerStep

\* the tokenizer driven by a loop over its items
SpecTok == InitTok /\ [][NextTok]_vars

-----------------------------------------------------------------------------
(* Expressions *)

\* Option<Vec<Token>>
NoTail == [some |-> FALSE]
SomeTail(v) == [some |-> TRUE, v |-> v]
Path(head, tail) == [head |-> head, tail |-> tail]

ExprPrefix(op, right) == [node |-> "Prefix", op |-> op, right |-> right]
ExprInfix(left, op, right) == [node |-> "Infix", left |-> left, op |-> op, right |-> right]
ExprPostfix(left, op) == [node |-> "Postfix", left |-> left, op |-> op]
ExprCall(function, arguments) == [node |-> "Call", function |-> function, arguments |-> arguments]
ExprName(p) == [node |-> "Name", path |-> p]
ExprLit(value) == [node |-> "Lit", value |-> value]
ExprIndex(expr, with) == [node |-> "Index", expr |-> expr, with |-> with]

\* ParserError
ErrTokenizer(e) == [e |-> "Tokenizer", inner |-> e]
ErrUnexpectedTy(found, expected) == [e |-> "Unexpected", found |-> found, expected |-> expected]
ErrUnexpectedEnd == [e |-> "UnexpectedEnd"]

\* Option<Ty>
NoTy == [some |-> FALSE]
SomeTy(ty) == [some |-> TRUE, ty |-> ty]

LParen == TyDelimeter("Parentheses", "Left")
RParen == TyDelimeter("Parentheses", "Right")
LSquare == TyDelimeter("Square", "Left")
RSquare == TyDelimeter("Square", "Right")
Comma == TyPunctuation("Comma")
DoubleColon == TyPunctuation("DoubleColon")

-----------------------------------------------------------------------------
(* The Parser's cursor.  st is the iterator T seen from outside: the items *)
(* it has returned so far and whether it has ended; ps is the Peekable:    *)
(* how many items it has pulled from T and whether the last one pulled is  *)
(* still buffered.  An item T has not produced yet is "Pending".           *)

ItemAt(st, i) ==
    IF i <= Len(st.items) THEN [some |-> "Some", item |-> st.items[i]]
    ELSE IF st.ended THEN [some |-> "None"]
    ELSE [some |-> "Pending"]

\* the outcomes of a parser function: Ok(val), Err(err), a panic, or a wait
\* for T's next item; ps is the Peekable afterwards
Ok(val, ps) == [kind |-> "Ok", val |-> val, ps |-> ps]
Err(err, ps) == [kind |-> "Err", err |-> err, ps |-> ps]
Panic(ps) == [kind |-> "Panic", ps |-> ps]
Pending(ps) == [kind |-> "Pending", ps |-> ps]

\* a cursor that takes an error of the tokenizer for the end of the input
TokenResult_swallow(o, ps) ==
    CASE o.some = "Pending" -> Pending(ps)
      [] o.some = "Some" /\ o.item.ok -> [kind |-> "Tok", t |-> o.item, ps |-> ps]
      [] OTHER -> [kind |-> "End", ps |-> ps]

\* Ok(Some(t)) is kind "Tok", Ok(None) is kind "End"
TokenResult(o, ps) ==
    CASE o.some = "Pending" -> Pending(ps)
      [] o.some = "None" -> [kind |-> "End", ps |-> ps]
      [] o.some = "Some" /\ o.item.ok -> [kind |-> "Tok", t |-> o.item, ps |-> ps]
      [] OTHER -> Err(ErrTokenizer(o.item.err), ps)

next_token(st, ps) ==
    LET i == IF ps.peeked THEN ps.pulled ELSE ps.pulled + 1
    IN  TokenResult(ItemAt(st, i), [pulled |-> i, peeked |-> FALSE])

\* a peek that takes the item out of the Peekable
peek_token_taking(st, ps) == next_token(st, ps)

peek_token(st, ps) ==
    LET i == IF ps.peeked THEN ps.pulled ELSE ps.pulled + 1
    IN  TokenResult(ItemAt(st, i), [pulled |-> i, peeked |-> TRUE])

Failed(r) == r.kind \in {"Err", "Panic", "Pending"}
IsTy(r, ty) == r.kind = "Tok" /\ r.t.ty = ty
OptTy(r) == IF r.kind = "Tok" THEN SomeTy(r.t.ty) ELSE NoTy
text(t) == t.position.text

-----------------------------------------------------------------------------
(* Binding powers *)

NoBp == [kind |-> "None"]
Todo == [kind |-> "todo"]

\* a prefix operator that lets its operand take the infix operators after it
prefix_binding_power_low(op) ==
    IF op \in {"Plus", "Minus", "DoublePlus", "DoubleMinus"}
    THEN [kind |-> "Some", r_bp |-> 0]
    ELSE NoBp

prefix_binding_power(op) ==
    IF op \in {"Plus", "Minus", "DoublePlus", "DoubleMinus"}
    THEN [kind |-> "Some", r_bp |-> 5]
    ELSE NoBp

InfixTodo == {"DoublePlus", "DoubleMinus", "BangEquals", "RightShift", "LesserThan",
              "DoubleStar", "DoubleAnd", "DoubleOr", "DoubleEquals", "GreaterThan",
              "Caret", "Percent", "SingleAnd", "SingleOr", "LeftShift", "Equals",
              "PlusEquals", "MinusEquals", "StarEquals", "SlashEquals", "TildaEquals",
              "DoubleStarEquals", "DoubleAndEquals", "DoubleOrEquals",
              "LesserThanEquals", "GreaterThanEquals", "CaretEquals", "PercentEquals",
              "SingleAndEquals", "SingleOrEquals", "LeftShiftEquals",
              "RightShiftEquals"}

\* + and - given a right power below their left power: right-associative
infix_binding_power_right(ty) ==
    IF ty.kind # "Operator" THEN NoBp
    ELSE CASE ty.op \in {"Plus", "Minus"} -> [kind |-> "Some", l_bp |-> 2, r_bp |-> 1]
           [] ty.op \in {"Star", "Slash"} -> [kind |-> "Some", l_bp |-> 3, r_bp |-> 4]
           [] ty.op \in InfixTodo -> Todo
           [] OTHER -> NoBp

infix_binding_power(ty) ==
    IF ty.kind # "Operator" THEN NoBp
    ELSE CASE ty.op \in {"Plus", "Minus"} -> [kind |-> "Some", l_bp |-> 1, r_bp |-> 2]
           [] ty.op \in {"Star", "Slash"} -> [kind |-> "Some", l_bp |-> 3, r_bp |-> 4]
           [] ty.op \in InfixTodo -> Todo
           [] OTHER -> NoBp

\* ! and [ given a left power below the prefix operators' right power
postfix_binding_power_low(ty) ==
    IF ty = TyOperator("Bang") \/ ty = LSquare
    THEN [kind |-> "Some", l_bp |-> 4]
    ELSE NoBp

postfix_binding_power(ty) ==
    IF ty = TyOperator("Bang") \/ ty = LSquare
    THEN [kind |-> "Some", l_bp |-> 7]
    ELSE NoBp

-----------------------------------------------------------------------------
(* The parser functions.  Each takes the iterator st and the Peekable ps   *)
(* and gives an outcome; a `?` in the code is the return of a failed       *)
(* outcome as it is.                                                       *)

RECURSIVE expr_bp(_, _, _)
RECURSIVE expr_primary(_, _)
RECURSIVE path_tail(_, _, _)
RECURSIVE expr_bp_loop(_, _, _, _)
RECURSIVE call_expr_loop(_, _, _, _)

\* the loop of call_expr, with the arguments parsed so far
call_expr_loop(st, ps, function, args) ==
    LET arg == expr_bp(st, ps, 0)
    IN  IF Failed(arg) THEN arg
        ELSE LET args1 == Append(args, arg.val)
                 pk == peek_token(st, arg.ps)
             IN  CASE Failed(pk) -> pk
                   [] IsTy(pk, RParen) ->
                        Ok(ExprCall(function, args1), next_token(st, pk.ps).ps)
                   [] IsTy(pk, Comma) ->
                        call_expr_loop(st, next_token(st, pk.ps).ps, function, args1)
                   [] OTHER ->
                        Err(ErrUnexpectedTy(OptTy(pk),
                              "a comma after the argument, or a parenthesis closing the agument list"),
                            pk.ps)

\* a call_expr that looks for ) before it parses the first argument
call_expr_maybe_empty(st, ps, function) ==
    LET pk == peek_token(st, ps)
    IN  IF IsTy(pk, RParen) THEN Ok(ExprCall(function, <<>>), next_token(st, pk.ps).ps)
        ELSE call_expr_loop(st, ps, function, <<>>)

call_expr(st, ps, function) == call_expr_loop(st, ps, function, <<>>)

\* the `while let Some(Identifier) = peek` loop that collects a path's tail
path_tail(st, ps, tail) ==
    LET pk == peek_token(st, ps)
    IN  CASE Failed(pk) -> pk
          [] IsTy(pk, TyIdentifier) ->
               LET n == next_token(st, pk.ps)
                   tail1 == Append(tail, n.t)
                   pk2 == peek_token(st, n.ps)
               IN  CASE Failed(pk2) -> pk2
                     [] IsTy(pk2, DoubleColon) ->
                          path_tail(st, next_token(st, pk2.ps).ps, tail1)
                     [] OTHER -> Ok(tail1, pk2.ps)
          [] OTHER -> Ok(tail, pk.ps)

\* expr_primary's arm for an identifier token t
primary_identifier(st, ps, t) ==
    LET pk == peek_token(st, ps)
    IN  CASE Failed(pk) -> pk
          [] IsTy(pk, LParen) ->
               call_expr(st, next_token(st, pk.ps).ps, Path(text(t), NoTail))
          [] IsTy(pk, DoubleColon) ->
               LET tl == path_tail(st, next_token(st, pk.ps).ps, <<>>)
               IN  IF Failed(tl) THEN tl
                   ELSE LET p == Path(text(t), SomeTail(tl.val))
                            pk2 == peek_token(st, tl.ps)
                        IN  CASE Failed(pk2) -> pk2
                              [] IsTy(pk2, LParen) ->
                                   call_expr(st, next_token(st, pk2.ps).ps, p)
                              [] OTHER -> Ok(ExprName(p), pk2.ps)
          [] OTHER -> Ok(ExprName(Path(text(t), NoTail)), pk.ps)

\* expr_primary's arm for a left parenthesis
primary_parenthesised(st, ps) ==
    LET lhs == expr_bp(st, ps, 0)
    IN  IF Failed(lhs) THEN lhs
        ELSE LET n == next_token(st, lhs.ps)
             IN  CASE Failed(n) -> n
                   [] IsTy(n, RParen) -> Ok(lhs.val, n.ps)
                   [] OTHER -> Err(ErrUnexpectedTy(OptTy(n), "a matching right parenthesis"),
                                   n.ps)

\* expr_primary's arm for an operator token
primary_prefix(st, ps, op) ==
    LET bp == prefix_binding_power(op)
    IN  IF bp.kind # "Some" THEN Panic(ps)
        ELSE LET rhs == expr_bp(st, ps, bp.r_bp)
             IN  IF Failed(rhs) THEN rhs
                 ELSE Ok(ExprPrefix(op, rhs.val), rhs.ps)

expr_primary(st, ps) ==
    LET n == next_token(st, ps)
    IN  CASE Failed(n) -> n
          [] n.kind = "End" -> Err(ErrUnexpectedEnd, n.ps)
          [] n.kind = "Tok" /\ n.t.ty.kind = "Literal" -> Ok(ExprLit(n.t.ty.value), n.ps)
          [] n.kind = "Tok" /\ n.t.ty.kind = "Identifier" -> primary_identifier(st, n.ps, n.t)
          [] n.kind = "Tok" /\ n.t.ty = LParen -> primary_parenthesised(st, n.ps)
          [] n.kind = "Tok" /\ n.t.ty.kind = "Operator" -> primary_prefix(st, n.ps, n.t.ty.op)
          [] OTHER -> Err(ErrUnexpectedTy(SomeTy(n.t.ty), "a literal or an identifier"), n.ps)

\* the postfix arm of expr_bp's loop: the operator op has been peeked
bp_postfix(st, ps, lhs, min_bp, op) ==
    LET n == next_token(st, ps)
    IN  IF op = LSquare
        THEN LET rhs == expr_bp(st, n.ps, 0)
             IN  IF Failed(rhs) THEN rhs
                 ELSE LET cl == next_token(st, rhs.ps)
                      IN  CASE Failed(cl) -> cl
                            [] IsTy(cl, RSquare) ->
                                 expr_bp_loop(st, cl.ps, ExprIndex(lhs, rhs.val), min_bp)
                            [] OTHER ->
                                 Err(ErrUnexpectedTy(OptTy(cl),
                                       "a matching right square bracket"), cl.ps)
        ELSE expr_bp_loop(st, n.ps, ExprPostfix(lhs, op.op), min_bp)

\* the infix arm of expr_bp's loop
bp_infix(st, ps, lhs, min_bp, op, r_bp) ==
    LET n == next_token(st, ps)
        rhs == expr_bp(st, n.ps, r_bp)
    IN  IF Failed(rhs) THEN rhs
        ELSE expr_bp_loop(st, rhs.ps, ExprInfix(lhs, op.op, rhs.val), min_bp)

\* expr_bp's `while let Some(op @ (Operator | Delimeter Square))` loop
expr_bp_loop(st, ps, lhs, min_bp) ==
    LET pk == peek_token(st, ps)
    IN  CASE Failed(pk) -> pk
          [] pk.kind = "Tok"
             /\ \/ pk.t.ty.kind = "Operator"
                \/ pk.t.ty.kind = "Delimeter" /\ pk.t.ty.ty = "Square" ->
               LET op == pk.t.ty
                   post == postfix_binding_power(op)
                   inf == infix_binding_power(op)
               IN  CASE post.kind = "Some" ->
                          IF post.l_bp < min_bp THEN Ok(lhs, pk.ps)
                          ELSE bp_postfix(st, pk.ps, lhs, min_bp, op)
                     [] post.kind # "Some" /\ inf.kind = "todo" -> Panic(pk.ps)
                     [] post.kind # "Some" /\ inf.kind = "Some" ->
                          IF inf.l_bp < min_bp THEN Ok(lhs, pk.ps)
                          ELSE bp_infix(st, pk.ps, lhs, min_bp, op, inf.r_bp)
                     [] OTHER -> Ok(lhs, pk.ps)
          [] OTHER -> Ok(lhs, pk.ps)

expr_bp(st, ps, min_bp) ==
    LET lhs == expr_primary(st, ps)
    IN  IF Failed(lhs) THEN lhs
        ELSE expr_bp_loop(st, lhs.ps, lhs.val, min_bp)

expr(st, ps) == expr_bp(st, ps, 0)

-----------------------------------------------------------------------------
(* The parser's steps *)

\* the iterator T as the parser sees it
Stream == [items |-> items, ended |-> iter = "vec" \/ nones > 0]

ParserFrame == UNCHANGED <<tok, diagnostics, loc, items, nones, iter, overflow_checks>>

\* expr(), called on a new Parser
ParserRun == expr(Stream, PeekableNew)

\* what expr() returns: Ok(val), Err(err), or a panic
Returned(r) ==
    CASE r.kind = "Ok" -> [kind |-> "Ok", val |-> r.val]
      [] r.kind = "Err" -> [kind |-> "Err", err |-> r.err]
      [] OTHER -> [kind |-> r.kind]

\* expr() needs an item the tokenizer has not produced yet: the Peekable
\* calls the tokenizer's next()
ParserPull ==
    /\ pc = "idle"
    /\ result = NotYet
    /\ ParserRun.kind = "Pending"
    /\ pc' = "get_token"
    /\ parser' = [parser EXCEPT !.tokenizer = ParserRun.ps]
    /\ UNCHANGED <<tok, diagnostics, loc, items, nones, iter, result, overflow_checks>>

\* Parser::expr() runs to its return (or to its panic)
ParserExpr ==
    /\ pc = "idle"
    /\ result = NotYet
    /\ ParserRun.kind # "Pending"
    /\ result' = Returned(ParserRun)
    /\ parser' = [parser EXCEPT !.tokenizer = ParserRun.ps]
    /\ UNCHANGED pc
    /\ ParserFrame

-----------------------------------------------------------------------------
(* The parser over an arbitrary token sequence (T is a vector's iterator) *)

\* a token of type ty whose text is txt
Tk(ty, txt) ==
    ItemOk([absolute_position |-> 0, line |-> 1, column |-> 1, text |-> txt], ty)

TkLit == Tk(TyLiteral(LitInteger(U64(1))), <<"1">>)
TkIdent == Tk(TyIdentifier, <<"a">>)
TkOp(op) == Tk(TyOperator(op), <<op>>)
TkLParen == Tk(LParen, <<"(">>)
TkRParen == Tk(RParen, <<")">>)
TkLSquare == Tk(LSquare, <<"[">>)
TkRSquare == Tk(RSquare, <<"]">>)
TkComma == Tk(Comma, <<",">>)
TkDoubleColon == Tk(DoubleColon, <<":", ":">>)

\* token sequences over atoms, + - * / and parentheses
MaxArithLen == 4
ArithAlphabet == {TkLit, TkIdent, TkOp("Plus"), TkOp("Minus"), TkOp("Star"),
                  TkOp("Slash"), TkLParen, TkRParen}
ArithSeqs(n) == BoundedSeq(ArithAlphabet, n)

\* token sequences over every kind of token the parser tells apart
MaxSeqLen == 3
SeqAlphabet == ArithAlphabet \cup
    {TkOp("DoubleMinus"), TkOp("Bang"), TkOp("Tilda"), TkOp("DoubleEquals"),
     TkLSquare, TkRSquare, TkComma, TkDoubleColon,
     Tk(TyPunctuation("Semicolon"), <<";">>), ItemErr(ErrUnexpected("\\"))}
MixedSeqs(n) == BoundedSeq(SeqAlphabet, n)

\* the token sequence that writes the expression e with the fewest
\* parentheses: level 1 is + -, 2 is * /, 3 a prefix operator, 4 a postfix
\* operator or an index, 5 an atom
InfixLevel(op) == IF op \in {"Plus", "Minus"} THEN 1 ELSE 2
Level(e) ==
    CASE e.node = "Infix" -> InfixLevel(e.op)
      [] e.node = "Prefix" -> 3
      [] e.node \in {"Postfix", "Index"} -> 4
      [] OTHER -> 5

RECURSIVE Tokens(_, _)
Tokens(e, min) ==
    LET body ==
          CASE e.node = "Lit" -> <<TkLit>>
            [] e.node = "Name" -> <<TkIdent>>
            [] e.node = "Infix" ->
                 Tokens(e.left, Level(e)) \o <<TkOp(e.op)>> \o Tokens(e.right, Level(e) + 1)
            [] e.node = "Prefix" -> <<TkOp(e.op)>> \o Tokens(e.right, 3)
            [] e.node = "Postfix" -> Tokens(e.left, 4) \o <<TkOp(e.op)>>
            [] e.node = "Index" ->
                 Tokens(e.expr, 4) \o <<TkLSquare>> \o Tokens(e.with, 1) \o <<TkRSquare>>
    IN  IF Level(e) < min THEN <<TkLParen>> \o body \o <<TkRParen>> ELSE body

AtomLit == ExprLit(LitInteger(U64(1)))
AtomName == ExprName(Path(<<"a">>, NoTail))
Atoms == {AtomLit, AtomName}

\* the expressions with exactly n infix operators
MaxArithOps == 2
RECURSIVE ArithTrees(_)
ArithTrees(n) ==
    IF n = 0 THEN Atoms
    ELSE UNION {{ExprInfix(l, op, r) :
                    l \in ArithTrees(i), op \in {"Plus", "Minus", "Star", "Slash"},
                    r \in ArithTrees(n - 1 - i)} : i \in 0..(n - 1)}

\* the expressions with exactly n infix, prefix, postfix or index nodes
MaxTreeOps == 2
RECURSIVE MixedTrees(_)
MixedTrees(n) ==
    IF n = 0 THEN Atoms
    ELSE UNION {{ExprInfix(l, op, r) :
                    l \in MixedTrees(i), op \in {"Minus", "Star"},
                    r \in MixedTrees(n - 1 - i)} : i \in 0..(n - 1)}
         \cup UNION {{ExprIndex(l, r) :
                    l \in MixedTrees(i), r \in MixedTrees(n - 1 - i)} : i \in 0..(n - 1)}
         \cup {ExprPrefix(op, r) :
                    op \in {"Minus", "DoublePlus"}, r \in MixedTrees(n - 1)}
         \cup {ExprPostfix(l, "Bang") : l \in MixedTrees(n - 1)}

TreeSeqs(a, m) ==
    {Tokens(e, 1) : e \in UNION {ArithTrees(n) : n \in 0..a}}
    \cup {Tokens(e, 1) : e \in UNION {MixedTrees(n) : n \in 0..m}}

\* token sequences in which the tokenizer reports errors
MaxErrLen == 3
ErrAlphabet == {TkLit, TkIdent, TkOp("Plus"), TkLParen,
                ItemErr(ErrUnfinishedString), ItemErr(ErrUnfinishedChar)}
ErrSeqs(n) == BoundedSeq(ErrAlphabet, n)

\* token sequences that start a call: a ( and then up to MaxCallLen tokens
MaxCallLen == 4
TkSemicolon == Tk(TyPunctuation("Semicolon"), <<";">>)
CallAlphabet == {TkLit, TkIdent, TkComma, TkLParen, TkRParen, TkOp("Minus"),
                 TkSemicolon}
CallSeqs(n) == {<<TkIdent, TkLParen>> \o s : s \in BoundedSeq(CallAlphabet, n)}

\* a new Parser over the iterator of the vector ts
InitParserWith(ts) ==
    /\ tok = TokenizerNew(<<>>)
    /\ overflow_checks = TRUE
    /\ diagnostics = <<>>
    /\ pc = "idle"
    /\ loc = NoLoc
    /\ items = ts
    /\ nones = 0
    /\ iter = "vec"
    /\ parser = ParserNew
    /\ result = NotYet

InitParser ==
    \/ \E ts \in ArithSeqs(MaxArithLen) : InitParserWith(ts)
    \/ \E ts \in MixedSeqs(MaxSeqLen) : InitParserWith(ts)
    \/ \E ts \in TreeSeqs(MaxArithOps, MaxTreeOps) : InitParserWith(ts)
    \/ \E ts \in ErrSeqs(MaxErrLen) : InitParserWith(ts)
    \/ \E ts \in CallSeqs(MaxCallLen) : InitParserWith(ts)

NextParser == ParserExpr

SpecParser == InitParser /\ [][NextParser]_vars

-----------------------------------------------------------------------------
(* The reference grammar of expressions, by recursive descent:             *)
(*     Sum     ::= Product (("+" | "-") Product)*                          *)
(*     Product ::= Unary (("*" | "/") Unary)*                              *)
(*     Unary   ::= ("+" | "-" | "++" | "--") Unary | Postfix               *)
(*     Postfix ::= Primary ("!" | "[" Sum "]")*                            *)
(*     Primary ::= literal | identifier | "(" Sum ")"                      *)
(* g.prefix and g.postfix say whether the grammar has the prefix           *)
(* production and the postfix productions.  A result is the tree and the   *)
(* index of the first token not read, or a failure.                        *)

RefOk(val, i) == [ok |-> TRUE, val |-> val, i |-> i]
RefFail == [ok |-> FALSE]
\* the type of the i-th token, or of no token
RefTy(ts, i) == IF i <= Len(ts) /\ ts[i].ok THEN ts[i].ty ELSE [kind |-> "End"]
RefIsOp(ts, i, ops) == RefTy(ts, i).kind = "Operator" /\ RefTy(ts, i).op \in ops

RECURSIVE RefSum(_, _, _)
RECURSIVE RefSumTail(_, _, _, _)
RECURSIVE RefProduct(_, _, _)
RECURSIVE RefProductTail(_, _, _, _)
RECURSIVE RefUnary(_, _, _)
RECURSIVE RefPostfixTail(_, _, _, _)
RECURSIVE RefPrimary(_, _, _)

RefPrimary(ts, i, g) ==
    LET ty == RefTy(ts, i)
    IN  CASE ty.kind = "Literal" -> RefOk(ExprLit(ty.value), i + 1)
          [] ty.kind = "Identifier" -> RefOk(ExprName(Path(ts[i].position.text, NoTail)), i + 1)
          [] ty = LParen ->
               LET e == RefSum(ts, i + 1, g)
               IN  IF e.ok /\ RefTy(ts, e.i) = RParen THEN RefOk(e.val, e.i + 1) ELSE RefFail
          [] OTHER -> RefFail

RefPostfixTail(ts, i, g, lhs) ==
    CASE g.postfix /\ RefIsOp(ts, i, {"Bang"}) ->
           RefPostfixTail(ts, i + 1, g, ExprPostfix(lhs, "Bang"))
      [] g.postfix /\ RefTy(ts, i) = LSquare ->
           LET e == RefSum(ts, i + 1, g)
           IN  IF e.ok /\ RefTy(ts, e.i) = RSquare
               THEN RefPostfixTail(ts, e.i + 1, g, ExprIndex(lhs, e.val))
               ELSE RefFail
      [] OTHER -> RefOk(lhs, i)

RefUnary(ts, i, g) ==
    IF g.prefix /\ RefIsOp(ts, i, {"Plus", "Minus", "DoublePlus", "DoubleMinus"})
    THEN LET e == RefUnary(ts, i + 1, g)
         IN  IF e.ok THEN RefOk(ExprPrefix(RefTy(ts, i).op, e.val), e.i) ELSE RefFail
    ELSE LET p == RefPrimary(ts, i, g)
         IN  IF p.ok THEN RefPostfixTail(ts, p.i, g, p.val) ELSE RefFail

RefProductTail(ts, i, g, lhs) ==
    IF RefIsOp(ts, i, {"Star", "Slash"})
    THEN LET r == RefUnary(ts, i + 1, g)
         IN  IF r.ok THEN RefProductTail(ts, r.i, g, ExprInfix(lhs, RefTy(ts, i).op, r.val))
             ELSE RefFail
    ELSE RefOk(lhs, i)

RefProduct(ts, i, g) ==
    LET l == RefUnary(ts, i, g)
    IN  IF l.ok THEN RefProductTail(ts, l.i, g, l.val) ELSE RefFail

RefSumTail(ts, i, g, lhs) ==
    IF RefIsOp(ts, i, {"Plus", "Minus"})
    THEN LET r == RefProduct(ts, i + 1, g)
         IN  IF r.ok THEN RefSumTail(ts, r.i, g, ExprInfix(lhs, RefTy(ts, i).op, r.val))
             ELSE RefFail
    ELSE RefOk(lhs, i)

RefSum(ts, i, g) ==
    LET l == RefProduct(ts, i, g)
    IN  IF l.ok THEN RefSumTail(ts, l.i, g, l.val) ELSE RefFail

\* ts is, as a whole, an expression of the grammar g
WellFormed(ts, g) == RefSum(ts, 1, g).ok /\ RefSum(ts, 1, g).i = Len(ts) + 1
RefTree(ts, g) == RefSum(ts, 1, g).val

GInfix == [prefix |-> FALSE, postfix |-> FALSE]
GPrefix == [prefix |-> TRUE, postfix |-> FALSE]
GFull == [prefix |-> TRUE, postfix |-> TRUE]

\* the node kinds that occur in the expression e
RECURSIVE Nodes(_)
Nodes(e) ==
    {e.node} \cup
    CASE e.node = "Infix" -> Nodes(e.left) \cup Nodes(e.right)
      [] e.node = "Prefix" -> Nodes(e.right)
      [] e.node = "Postfix" -> Nodes(e.left)
      [] e.node = "Index" -> Nodes(e.expr) \cup Nodes(e.with)
      [] OTHER -> {}

\* expr() has returned, on a token sequence given to the parser as it is
Parsed == iter = "vec" /\ result # NotYet

\* C1: on every token sequence that is a well-formed expression over atoms,
\* the infix operators + - * / and parentheses, expr() returns Ok with the
\* tree of the reference grammar: * and / bind tighter than + and -, all four
\* associate to the left, and a pair of parentheses adds no node.
C1_ExprIsReferenceTree ==
    (Parsed /\ WellFormed(items, GInfix))
        => result = [kind |-> "Ok", val |-> RefTree(items, GInfix)]

\* ( 1 - a ) * 1 has been parsed as ((1 - a) * 1): the parentheses override the precedence of *
C1_Witness ==
    /\ Parsed
    /\ items = <<TkLParen, TkLit, TkOp("Minus"), TkIdent, TkRParen, TkOp("Star"), TkLit>>
    /\ result = [kind |-> "Ok", val |->
          ExprInfix(ExprInfix(AtomLit, "Minus", AtomName), "Star", AtomLit)]

\* C2: on every well-formed token sequence with a prefix operator (+ - ++ --)
\* in it, expr() returns the tree in which the prefix operator's operand ends
\* before the next + - * /: the operand is parsed at binding power 5.
C2_PrefixBindsTighter ==
    (Parsed /\ WellFormed(items, GPrefix) /\ "Prefix" \in Nodes(RefTree(items, GPrefix)))
        => result = [kind |-> "Ok", val |-> RefTree(items, GPrefix)]

\* - a * 1 has been parsed as (-a) * 1
C2_Witness ==
    /\ Parsed
    /\ items = <<TkOp("Minus"), TkIdent, TkOp("Star"), TkLit>>
    /\ result = [kind |-> "Ok", val |->
          ExprInfix(ExprPrefix("Minus", AtomName), "Star", AtomLit)]

\* C3: on every well-formed token sequence with a postfix ! or an index in
\* it, expr() returns the tree in which ! and [ ] apply to the primary right
\* before them, ahead of every prefix and infix operator, and chain left to
\* right; the expression between [ and ] is a whole expression.
C3_PostfixBindsTightest ==
    (Parsed /\ WellFormed(items, GFull)
       /\ Nodes(RefTree(items, GFull)) \cap {"Postfix", "Index"} # {})
        => result = [kind |-> "Ok", val |-> RefTree(items, GFull)]

\* - a [ 1 ] has been parsed as -(a[1])
C3_Witness ==
    /\ Parsed
    /\ items = <<TkOp("Minus"), TkIdent, TkLSquare, TkLit, TkRSquare>>
    /\ result = [kind |-> "Ok", val |->
          ExprPrefix("Minus", ExprIndex(AtomName, AtomLit))]

-----------------------------------------------------------------------------
(* Display: the text of a literal, a path and an expression *)

\* Display for Literal, for the integers, strings and characters
DisplayLiteral(v) ==
    CASE v.lit = "Number" /\ v.num.kind = "Integer" -> Decimal(v.num.value)
      [] v.lit = "String" -> <<DQ>> \o v.s \o <<DQ>>
      [] v.lit = "Char" -> <<SQ, v.c, SQ>>

RECURSIVE DisplayTail(_)
DisplayTail(ts) ==
    IF ts = <<>> THEN <<>>
    ELSE <<":", ":">> \o text(Head(ts)) \o DisplayTail(Tail(ts))

DisplayPath(p) == p.head \o (IF p.tail.some THEN DisplayTail(p.tail.v) ELSE <<>>)

RECURSIVE DisplayExpression(_)
RECURSIVE DisplayArguments(_)
DisplayArguments(args) ==
    IF args = <<>> THEN <<>>
    ELSE <<",", " ">> \o DisplayExpression(Head(args)) \o DisplayArguments(Tail(args))

DisplayExpression(e) ==
    CASE e.node = "Name" -> DisplayPath(e.path)
      [] e.node = "Lit" -> DisplayLiteral(e.value)
      [] e.node = "Prefix" ->
           <<"(">> \o DisplayOperator(e.op) \o DisplayExpression(e.right) \o <<")">>
      [] e.node = "Infix" ->
           <<"(">> \o DisplayExpression(e.left) \o <<" ">> \o DisplayOperator(e.op)
              \o <<" ">> \o DisplayExpression(e.right) \o <<")">>
      [] e.node = "Index" ->
           <<"(">> \o DisplayExpression(e.expr) \o <<"[">> \o DisplayExpression(e.with)
              \o <<"]", ")">>
      [] e.node = "Postfix" ->
           <<"(">> \o DisplayExpression(e.left) \o DisplayOperator(e.op) \o <<")">>
      [] e.node = "Call" ->
           <<"(">> \o DisplayPath(e.function) \o <<"(">>
              \o (IF e.arguments = <<>> THEN <<>>
                  ELSE DisplayExpression(Head(e.arguments))
                          \o DisplayArguments(Tail(e.arguments)))
              \o <<")", ")">>

-----------------------------------------------------------------------------
(* The parser over the tokenizer, as main() builds them *)

\* the text a::b::c(1, 2)
ScopedCallText == <<"a", ":", ":", "b", ":", ":", "c", "(", "1", ",", " ", "2", ")">>

\* expressions nested at most MaxDisplayOps deep in their left operand or
\* first argument: infix, index and call nodes over names of one and of two
\* segments, an integer and a string
MaxDisplayOps == 1
ScopedName == ExprName(Path(<<"a">>, SomeTail(<<Tk(TyIdentifier, <<"b">>)>>)))
DisplayAtoms == {AtomLit, AtomName, ScopedName, ExprLit(LitString(<<"s">>))}
RECURSIVE DisplayTreesUpTo(_)
DisplayTreesUpTo(n) ==
    IF n = 0 THEN DisplayAtoms
    ELSE LET sub == DisplayTreesUpTo(n - 1)
         IN  sub
             \cup {ExprInfix(l, op, r) :
                      l \in sub, op \in {"Minus", "Star"}, r \in DisplayAtoms}
             \cup {ExprIndex(l, r) : l \in sub, r \in DisplayAtoms}
             \cup {ExprCall(q.path, <<x>>) : q \in {AtomName, ScopedName}, x \in sub}
             \cup {ExprCall(q.path, <<x, y>>) :
                      q \in {AtomName, ScopedName}, x \in sub, y \in DisplayAtoms}
DisplayTrees == DisplayTreesUpTo(MaxDisplayOps)

MaxPipeLen == 4
PipeAlphabet == {"a", ":", "(", ")", "1", ",", " ", "+"}
PipeTexts(n) ==
    BoundedSeq(PipeAlphabet, n)
    \cup {ScopedCallText,
          <<"a", ":", ":", "b">>,
          <<"f", "(", "1", ",", " ", "2", ")">>,
          <<"1", ".", "5", " ", "+", " ", "x", "_", "1">>,
          <<"/", "*", "c", "*", "/", "1">>,
          <<"/", "/", "c", NL, "1">>,
          <<DQ, DQ>>}
    \cup {DisplayExpression(e) : e \in DisplayTrees}

InitPipe ==
    \E src \in PipeTexts(MaxPipeLen) : InitWith(TokInput(src, FALSE, FALSE, TRUE))

NextPipe == ParserPull \/ ParserExpr \/ TokenizerStep

SpecPipe == InitPipe /\ [][NextPipe]_vars

\* the texts of a sequence of tokens
Texts(ts) == [i \in 1..Len(ts) |-> ts[i].position.text]

\* C4: expr() on the text a::b::c(1, 2) returns a Call whose Path has head a
\* and tail [b, c] and whose arguments are the literals 1 and 2; and on the
\* text a::b it returns the Name of the two-segment path.
C4_ScopedPath ==
    /\ (Text(tok) = ScopedCallText /\ result # NotYet) =>
          /\ result.kind = "Ok"
          /\ result.val.node = "Call"
          /\ result.val.function.head = <<"a">>
          /\ result.val.function.tail.some
          /\ Texts(result.val.function.tail.v) = <<<<"b">>, <<"c">>>>
          /\ result.val.arguments =
                <<ExprLit(LitInteger(U64(1))), ExprLit(LitInteger(U64(2)))>>
    /\ (Text(tok) = <<"a", ":", ":", "b">> /\ result # NotYet) =>
          /\ result.kind = "Ok"
          /\ result.val.node = "Name"
          /\ result.val.path.head = <<"a">>
          /\ result.val.path.tail.some
          /\ Texts(result.val.path.tail.v) = <<<<"b">>>>

-----------------------------------------------------------------------------
(* Reference readings of the source text, for the tokenizer's properties *)

\* the first call of next() has returned an item
FirstItem == Len(items) >= 1

\* the digits of a literal: its separators removed, then its leading zeros
RECURSIVE WithoutSeparators(_)
WithoutSeparators(s) ==
    IF s = <<>> THEN <<>>
    ELSE IF Head(s) = "_" THEN WithoutSeparators(Tail(s))
    ELSE <<Head(s)>> \o WithoutSeparators(Tail(s))

RECURSIVE WithoutLeadingZeros(_)
WithoutLeadingZeros(s) ==
    IF Len(s) > 1 /\ Head(s) = "0" THEN WithoutLeadingZeros(Tail(s)) ELSE s

IsIntegerText(s) ==
    /\ Len(s) >= 1
    /\ s[1] \in Digits
    /\ \A i \in 1..Len(s) : s[i] \in Digits \cup {"_"}

\* C5: for every text that is one integer literal (a digit, then digits and
\* _ separators, of any length) the scan does not panic and the first item
\* is Literal(Number(Integer(v))) with v the digits read in base 10.
C5_IntegerValue ==
    IsIntegerText(Text(tok)) =>
        /\ pc # "panic"
        /\ FirstItem =>
              /\ items[1].ok
              /\ items[1].ty.kind = "Literal"
              /\ items[1].ty.value.lit = "Number"
              /\ items[1].ty.value.num.kind = "Integer"
              /\ Decimal(items[1].ty.value.num.value) =
                     WithoutLeadingZeros(WithoutSeparators(Text(tok)))

\* The reference reading of a nested comment: s is read left to right from
\* index i inside a comment of the given depth; "/*" opens a level, "*/"
\* closes one, and the two characters of either are read together.  The
\* result is the index after the "*/" that closes the comment, or 0 when
\* the text ends first.
RECURSIVE RefCommentEnd(_, _, _)
RefCommentEnd(s, i, depth) ==
    CASE depth = 0 -> i
      [] depth > 0 /\ i > Len(s) -> 0
      [] depth > 0 /\ i < Len(s) /\ s[i] = "/" /\ s[i + 1] = "*" ->
           RefCommentEnd(s, i + 2, depth + 1)
      [] depth > 0 /\ i < Len(s) /\ s[i] = "*" /\ s[i + 1] = "/" ->
           RefCommentEnd(s, i + 2, depth - 1)
      [] OTHER -> RefCommentEnd(s, i + 1, depth)

StartsComment(s, k) == k < Len(s) /\ s[k] = "/" /\ s[k + 1] = "*"

\* s is exactly one comment with balanced inner comments
BalancedComment(s) == StartsComment(s, 1) /\ RefCommentEnd(s, 3, 1) = Len(s) + 1

\* item is the Comment(MultiLine) token of the comment that starts at index
\* k of s and runs to its end
IsCommentToken(item, s, k) ==
    /\ item.ok
    /\ item.ty = TyComment("MultiLine")
    /\ item.position.absolute_position = k - 1
    /\ item.position.line = 1 + Cardinality({i \in 1..(k - 1) : s[i] = NL})
    /\ item.position.text = SubSeq(s, k, Len(s))

\* C6: on a text that is exactly one balanced /* */ comment, with
\* emit_comments set, the tokenizer yields one Comment(MultiLine) token whose
\* text is the whole input, then ends, and appends no diagnostic.
C6_BalancedCommentIsOneToken ==
    (BalancedComment(Text(tok)) /\ tok.emit_comments) =>
        /\ diagnostics = <<>>
        /\ Len(items) <= 1
        /\ FirstItem => IsCommentToken(items[1], Text(tok), 1)
        /\ nones > 0 => FirstItem

\* the index of the first "/" of s (0 when there is none)
FirstSlash(s) ==
    IF \E i \in 1..Len(s) : s[i] = "/"
    THEN CHOOSE i \in 1..Len(s) : s[i] = "/" /\ \A j \in 1..(i - 1) : s[j] # "/"
    ELSE 0

\* the index where a comment starts that the text never closes (0 when
\* there is none): the text's first "/" starts a comment, and the reference
\* reading of it reaches the end of the text
UnclosedCommentAt(s) ==
    LET k == FirstSlash(s)
    IN  IF k > 0 /\ StartsComment(s, k) /\ RefCommentEnd(s, k + 2, 1) = 0 THEN k ELSE 0

\* C7: on a text whose /* comment is never closed, the run ends with exactly
\* one UnclosedMultilineComment diagnostic, at the comment's start, and the
\* comment is yielded as a Comment(MultiLine) token, not as an error; and no
\* run ever appends more than one diagnostic.
C7_UnclosedCommentDiagnostic ==
    /\ Len(diagnostics) <= 1
    /\ LET s == Text(tok)
           k == UnclosedCommentAt(s)
       IN  (k > 0 /\ nones > 0) =>
              /\ Len(diagnostics) = 1
              /\ diagnostics[1].ty = "UnclosedMultilineComment"
              /\ diagnostics[1].position.absolute_position = k - 1
              /\ diagnostics[1].position.text = SubSeq(s, k, Len(s))
              /\ tok.emit_comments =>
                    /\ FirstItem
                    /\ IsCommentToken(items[Len(items)], s, k)

\* The reference reading of a string literal from index i: the index of the
\* closing quote and the value, or that the text ends first
RefUnescape(c) == CASE c = "n" -> NL [] c = "t" -> TAB [] c = "0" -> NUL [] OTHER -> c

RECURSIVE RefString(_, _, _, _)
RefString(s, i, escaped, val) ==
    CASE i > Len(s) -> [closed |-> FALSE]
      [] i <= Len(s) /\ escaped -> RefString(s, i + 1, FALSE, Append(val, RefUnescape(s[i])))
      [] i <= Len(s) /\ ~escaped /\ s[i] = DQ -> [closed |-> TRUE, end |-> i, val |-> val]
      [] i <= Len(s) /\ ~escaped /\ s[i] = BS -> RefString(s, i + 1, TRUE, val)
      [] OTHER -> RefString(s, i + 1, FALSE, Append(val, s[i]))

FirstPosition(txt) ==
    [absolute_position |-> 0, line |-> 1, column |-> 1, text |-> txt]

\* C8: on a text that opens a string literal, next() returns
\* Err(UnfinishedString) when the text ends before the closing quote, and
\* otherwise a Literal(String) token whose value is the unescaped characters
\* between the quotes and whose text runs through the closing quote.
C8_StringLiteral ==
    LET s == Text(tok)
        r == RefString(s, 2, FALSE, <<>>)
    IN  (Len(s) >= 1 /\ s[1] = DQ) =>
           /\ pc # "abort"
           /\ FirstItem =>
                 items[1] = IF r.closed
                            THEN ItemOk(FirstPosition(SubSeq(s, 1, r.end)),
                                        TyLiteral(LitString(r.val)))
                            ELSE ItemErr(ErrUnfinishedString)

\* C9: on a text that opens a character literal, next() returns a
\* Literal(Char) token whose text runs through the closing quote when the
\* text is ' one character ' or ' one escaped character ', and
\* Err(UnfinishedChar) otherwise.  (A backslash between two quotes counts
\* as a character, so '\' may be read either way.)
C9_CharLiteral ==
    LET s == Text(tok)
        plain == Len(s) >= 3 /\ s[3] = SQ
        escaped == Len(s) >= 4 /\ s[2] = BS /\ s[4] = SQ
    IN  (Len(s) >= 1 /\ s[1] = SQ /\ FirstItem) =>
           IF plain \/ escaped
           THEN /\ items[1].ok
                /\ items[1].ty.kind = "Literal"
                /\ items[1].ty.value.lit = "Char"
                /\ \/ plain /\ items[1].position = FirstPosition(SubSeq(s, 1, 3))
                   \/ escaped /\ items[1].position = FirstPosition(SubSeq(s, 1, 4))
           ELSE items[1] = ItemErr(ErrUnfinishedChar)

\* the tokenizer under the scheduling of a running program: a step that can
\* be taken is taken
FairSpecTok == SpecTok /\ WF_vars(NextTok)

\* C10: every call of next() comes to an end (it returns; an overflow panic
\* ends it too and is the number scan's matter), and once next() has
\* returned None every later call returns None too and yields no further
\* item.
C10_NextTerminates ==
    /\ []<>(pc \in {"idle", "panic"})
    /\ [][nones > 0 => (items' = items /\ nones' >= nones)]_vars

-----------------------------------------------------------------------------
(* The two emit flags *)

\* the index after the last character of an Ok item's slice
SliceEnd(item) == item.position.absolute_position + Len(item.position.text)

\* the text between two items yielded one after the other
Gap(s, i) == SubSeq(s, SliceEnd(items[i]) + 1, items[i + 1].position.absolute_position)

StartsFiltered(t, g) ==
    \/ ~t.emit_whitespace /\ g[1] \in WhiteChars
    \/ ~t.emit_comments /\ Len(g) >= 2 /\ g[1] = "/" /\ g[2] \in {"/", "*"}

\* C11: Tokenizer::new clears both flags; next() yields no Whitespace token
\* while emit_whitespace is false and no Comment token while emit_comments is
\* false, each flag on its own; the tokens yielded come in source order, and
\* the text skipped between two of them starts a token of a discarded kind.
C11_FlagsFilter ==
    /\ ~TokenizerNew(<<>>).emit_whitespace /\ ~TokenizerNew(<<>>).emit_comments
    /\ \A i \in 1..Len(items) :
          items[i].ok =>
             /\ items[i].ty.kind = "Whitespace" => tok.emit_whitespace
             /\ items[i].ty.kind = "Comment" => tok.emit_comments
    /\ \A i \in 1..(Len(items) - 1) :
          (items[i].ok /\ items[i + 1].ok) =>
             /\ SliceEnd(items[i]) <= items[i + 1].position.absolute_position
             /\ LET g == Gap(Text(tok), i)
                IN  g # <<>> => StartsFiltered(tok, g)

\* /**/ a with comments emitted and whitespace discarded has been scanned
\* to a Comment and an Identifier
C11_Witness ==
    /\ Text(tok) = <<"/", "*", "*", "/", " ", "a">>
    /\ ~tok.emit_whitespace /\ tok.emit_comments
    /\ nones > 0
    /\ Len(items) = 2
    /\ items[1].ok /\ items[1].ty = TyComment("MultiLine")
    /\ items[2].ok /\ items[2].ty = TyIdentifier

-----------------------------------------------------------------------------
(* The parser's outcomes *)

\* the types of the tokens a primary expression can start with
StartsPrimary(ty) ==
    \/ ty.kind \in {"Literal", "Identifier"}
    \/ ty = LParen
    \/ ty.kind = "Operator" /\ ty.op \in {"Plus", "Minus", "DoublePlus", "DoubleMinus"}

\* C12: on every token sequence expr() returns Ok or a ParserError and never
\* panics; an empty sequence gives Err(UnexpectedEnd), and a first token
\* that cannot start a primary expression gives an error value
\* (Err(Unexpected) with that token found when it is not an operator).
C12_ExprNeverPanics ==
    Parsed =>
       /\ result.kind \in {"Ok", "Err"}
       /\ items = <<>> => result = [kind |-> "Err", err |-> ErrUnexpectedEnd]
       /\ (items # <<>> /\ items[1].ok /\ ~StartsPrimary(items[1].ty)) =>
             /\ result.kind = "Err"
             /\ items[1].ty.kind # "Operator" =>
                   /\ result.err.e = "Unexpected"
                   /\ result.err.found = SomeTy(items[1].ty)

\* the index of the first error among the items (0 when there is none)
FirstErr ==
    IF \E i \in 1..Len(items) : ~items[i].ok
    THEN CHOOSE i \in 1..Len(items) : ~items[i].ok /\ \A j \in 1..(i - 1) : items[j].ok
    ELSE 0

\* how many items the parser's Peekable has pulled (the end counts as one)
Pulled == parser.tokenizer.pulled

\* the type of the item pulled last, as an Option
LastPulledTy ==
    IF Pulled >= 1 /\ Pulled <= Len(items) /\ items[Pulled].ok
    THEN SomeTy(items[Pulled].ty) ELSE NoTy

\* C13: when the parser reads an item that is a TokenizerError, expr()
\* returns ParserError::Tokenizer with that error, and nothing is pulled
\* after the item at which a fatal error was found: the erroneous item, the
\* unexpected token, or the end of the input.
C13_ErrorsPropagate ==
    Parsed =>
       /\ (FirstErr > 0 /\ Pulled >= FirstErr) =>
             /\ result = [kind |-> "Err", err |-> ErrTokenizer(items[FirstErr].err)]
             /\ Pulled = FirstErr
       /\ result.kind = "Err" =>
             /\ DOMAIN result = {"kind", "err"}
             /\ CASE result.err.e = "Tokenizer" ->
                       FirstErr > 0 /\ Pulled = FirstErr
                  [] result.err.e = "Unexpected" ->
                       result.err.found = LastPulledTy
                  [] result.err.e = "UnexpectedEnd" ->
                       Pulled = Len(items) + 1

\* ( followed by an unfinished string and a literal has been parsed to that
\* error, the literal not pulled
C13_Witness ==
    /\ Parsed
    /\ items = <<TkLParen, ItemErr(ErrUnfinishedString), TkLit>>
    /\ result = [kind |-> "Err", err |-> ErrTokenizer(ErrUnfinishedString)]
    /\ Pulled = 2

-----------------------------------------------------------------------------
(* Display and expr() *)

\* the shape of an expression: its node kinds, operators, path segments and
\* arguments, without the literals' values and the tokens' positions
Segments(p) == <<p.head>> \o (IF p.tail.some THEN Texts(p.tail.v) ELSE <<>>)

RECURSIVE Shape(_)
Shape(e) ==
    CASE e.node = "Name" -> [node |-> "Name", path |-> Segments(e.path)]
      [] e.node = "Lit" -> [node |-> "Lit"]
      [] e.node = "Prefix" -> [node |-> "Prefix", op |-> e.op, right |-> Shape(e.right)]
      [] e.node = "Infix" ->
           [node |-> "Infix", op |-> e.op, left |-> Shape(e.left), right |-> Shape(e.right)]
      [] e.node = "Postfix" -> [node |-> "Postfix", op |-> e.op, left |-> Shape(e.left)]
      [] e.node = "Index" ->
           [node |-> "Index", expr |-> Shape(e.expr), with |-> Shape(e.with)]
      [] e.node = "Call" ->
           [node |-> "Call", path |-> Segments(e.function),
            arguments |-> [i \in 1..Len(e.arguments) |-> Shape(e.arguments[i])]]

DisplayedShapes == {<<DisplayExpression(e), Shape(e)>> : e \in DisplayTrees}

\* C14: when the text is the Display form of an expression built from infix
\* + - * /, names, literals, calls and indices, tokenizing and parsing it
\* comes to an end and expr() returns Ok with an expression of the same
\* shape.
C14_DisplayRoundTrip ==
    \A d \in DisplayedShapes :
        Text(tok) = d[1] =>
           /\ pc \notin {"abort", "panic"}
           /\ result # NotYet => (result.kind = "Ok" /\ Shape(result.val) = d[2])

-----------------------------------------------------------------------------
(* Positions *)

\* the offset at which the line of offset k starts: after the last newline
\* before k
LineStart(s, k) ==
    IF \E i \in 1..k : s[i] = NL
    THEN CHOOSE i \in 1..k : s[i] = NL /\ \A j \in (i + 1)..k : s[j] # NL
    ELSE 0

NewlinesBefore(s, k) == Cardinality({i \in 1..k : s[i] = NL})

PositionIsRight(p, s) ==
    /\ p.text # <<>>
    /\ p.text = SubSeq(s, p.absolute_position + 1, p.absolute_position + Len(p.text))
    /\ p.line = 1 + NewlinesBefore(s, p.absolute_position)
    /\ p.column = 1 + p.absolute_position - LineStart(s, p.absolute_position)

\* C15: every token yielded carries the offset of its first character, the
\* 1-based line of that offset and its 1-based column in that line, so two
\* tokens of one line differ in their columns.
C15_Positions ==
    /\ \A i \in 1..Len(items) :
          items[i].ok => PositionIsRight(items[i].position, Text(tok))
    /\ \A i, j \in 1..Len(items) :
          (i < j /\ items[i].ok /\ items[j].ok
             /\ items[i].position.line = items[j].position.line)
          => items[i].position.column # items[j].position.column

-----------------------------------------------------------------------------
(* Paths and calls *)

\* the paths of an expression
RECURSIVE Paths(_)
Paths(e) ==
    CASE e.node = "Name" -> {e.path}
      [] e.node = "Lit" -> {}
      [] e.node = "Prefix" -> Paths(e.right)
      [] e.node = "Infix" -> Paths(e.left) \cup Paths(e.right)
      [] e.node = "Postfix" -> Paths(e.left)
      [] e.node = "Index" -> Paths(e.expr) \cup Paths(e.with)
      [] e.node = "Call" ->
           {e.function} \cup UNION {Paths(e.arguments[i]) : i \in 1..Len(e.arguments)}

RECURSIVE Calls(_)
Calls(e) ==
    CASE e.node \in {"Name", "Lit"} -> {}
      [] e.node = "Prefix" -> Calls(e.right)
      [] e.node = "Infix" -> Calls(e.left) \cup Calls(e.right)
      [] e.node = "Postfix" -> Calls(e.left)
      [] e.node = "Index" -> Calls(e.expr) \cup Calls(e.with)
      [] e.node = "Call" ->
           {e} \cup UNION {Calls(e.arguments[i]) : i \in 1..Len(e.arguments)}

AtomOf(t) == IF t = TkLit THEN AtomLit ELSE AtomName

\* ts is a ( x1 , x2 , ... , xn ) with n >= 1 literals and names
IsAtomCall(ts) ==
    /\ Len(ts) >= 4 /\ Len(ts) % 2 = 0
    /\ ts[1] = TkIdent /\ ts[2] = TkLParen /\ ts[Len(ts)] = TkRParen
    /\ \A i \in 3..(Len(ts) - 1) :
          IF i % 2 = 1 THEN ts[i] \in {TkLit, TkIdent} ELSE ts[i] = TkComma
    /\ \A i \in 3..(Len(ts) - 2) : ts[i] = TkIdent => ts[i + 1] # TkLParen

AtomCall(ts) ==
    ExprCall(AtomName.path, [i \in 1..((Len(ts) - 2) \div 2) |-> AtomOf(ts[2 * i + 1])])

CallErr == "a comma after the argument, or a parenthesis closing the agument list"

\* C17: every Call expr() builds has at least one argument; a ( x1 , ... , xn )
\* gives the call of a with x1 .. xn in that order; a ( ) and a ( 1 , ) give
\* an error; and a token that is neither , nor ) after the argument 1 gives
\* Err(Unexpected) with that token found, the token left in the stream.
C17_CallArguments ==
    Parsed =>
       /\ result.kind = "Ok" => \A c \in Calls(result.val) : Len(c.arguments) >= 1
       /\ IsAtomCall(items) => result = [kind |-> "Ok", val |-> AtomCall(items)]
       /\ items \in {<<TkIdent, TkLParen, TkRParen>>,
                     <<TkIdent, TkLParen, TkLit, TkComma, TkRParen>>}
             => result.kind = "Err"
       /\ (Len(items) >= 4 /\ SubSeq(items, 1, 3) = <<TkIdent, TkLParen, TkLit>>
             /\ items[4] \in {TkLit, TkIdent, TkSemicolon}) =>
             /\ result = [kind |-> "Err", err |->
                             ErrUnexpectedTy(SomeTy(items[4].ty), CallErr)]
             /\ parser.tokenizer = [pulled |-> 4, peeked |-> TRUE]

\* a ( 1 , a ) has been parsed to the call of a with the arguments 1 and a
C17_Witness ==
    /\ Parsed
    /\ items = <<TkIdent, TkLParen, TkLit, TkComma, TkIdent, TkRParen>>
    /\ result = [kind |-> "Ok", val |-> ExprCall(AtomName.path, <<AtomLit, AtomName>>)]

-----------------------------------------------------------------------------
(* Operators and punctuation *)

IsPrefixAt(txt, s, k) ==
    k + Len(txt) <= Len(s) /\ SubSeq(s, k + 1, k + Len(txt)) = txt

\* the lexemes of the table that the text s continues with at offset k
LexemesAt(s, k) == {l \in LexemeTable : IsPrefixAt(l.text, s, k)}

LexemeTexts == {l.text : l \in LexemeTable}

\* a comment starts at offset k of s
CommentAt(s, k) == IsPrefixAt(<<"/", "/">>, s, k) \/ IsPrefixAt(<<"/", "*">>, s, k)

\* C18: a token that starts where a lexeme of the operator and punctuation
\* table starts (and no comment does) is the longest lexeme of the table the
\* text continues with: it has that lexeme's kind and exactly its
\* characters.  A lexeme scanned alone is one token.  (Stated of the token
\* yielded last, and so of every token when it was yielded.)
C18_LongestMatch ==
    LET s == Text(tok)
        n == Len(items)
    IN  /\ (n >= 1 /\ items[n].ok) =>
              LET k == items[n].position.absolute_position
                  ls == LexemesAt(s, k)
              IN  (ls # {} /\ ~CommentAt(s, k)) =>
                     \E l \in ls :
                        /\ \A m \in ls : Len(m.text) <= Len(l.text)
                        /\ items[n].ty = l.ty
                        /\ items[n].position.text = l.text
        /\ (nones > 0 /\ s \in LexemeTexts) =>
              /\ n = 1
              /\ items[1].ok
              /\ Lexeme(items[1].position.text, items[1].ty) \in LexemeTable

\* **= has been scanned to the one token DoubleStarEquals
C18_Witness ==
    /\ Text(tok) = <<"*", "*", "=">>
    /\ nones > 0
    /\ items = <<ItemOk(FirstPosition(<<"*", "*", "=">>), TyOperator("DoubleStarEquals"))>>

-----------------------------------------------------------------------------
(* Slices *)

\* the run is over: next() has returned None, or the scan of a string goes
\* on for ever
RunOver == nones > 0 \/ pc = "abort"

\* the slice of a string or character literal token runs from its opening
\* quote through its closing quote
QuotedSliceIsLexeme(item, s) ==
    LET k == item.position.absolute_position
        txt == item.position.text
    IN  /\ (item.ty.kind = "Literal" /\ item.ty.value.lit = "String") =>
              LET r == RefString(s, k + 2, FALSE, <<>>)
              IN  r.closed /\ SliceEnd(item) = r.end
        /\ (item.ty.kind = "Literal" /\ item.ty.value.lit = "Char") =>
              /\ Len(txt) \in {3, 4}
              /\ txt[1] = SQ /\ txt[Len(txt)] = SQ
              /\ Len(txt) = 4 => txt[2] = BS

\* C19: when both flags are set and the input gives no TokenizerError, the
\* slices of the tokens follow one another from offset 0 without a gap or
\* an overlap, a run that has ended has covered the whole text, and the
\* slice of a string or character literal is the literal from quote to
\* quote.
C19_SlicesCoverText ==
    LET s == Text(tok)
    IN  (tok.emit_whitespace /\ tok.emit_comments
           /\ \A i \in 1..Len(items) : items[i].ok) =>
           /\ \A i \in 1..Len(items) :
                 /\ items[i].position.absolute_position =
                       (IF i = 1 THEN 0 ELSE SliceEnd(items[i - 1]))
                 /\ items[i].position.text # <<>>
                 /\ items[i].position.text =
                       SubSeq(s, items[i].position.absolute_position + 1, SliceEnd(items[i]))
           /\ nones > 0 =>
                 (IF items = <<>> THEN 0 ELSE SliceEnd(items[Len(items)])) = Len(s)
           /\ RunOver => \A i \in 1..Len(items) : QuotedSliceIsLexeme(items[i], s)

-----------------------------------------------------------------------------
(* What expr() leaves in the stream *)

\* a token that is no operator and no [
Stops(ty) == ty.kind # "Operator" /\ ty.kind # "Keyword" /\ ty # LSquare

\* the first k items are a whole expression (without calls and scoped
\* paths), and the item after them is a token that neither continues it nor
\* is an operator
StopsAfter(k) ==
    /\ k >= 1 /\ k < Len(items)
    /\ \A i \in 1..(k + 1) : items[i].ok
    /\ WellFormed(SubSeq(items, 1, k), GFull)
    /\ Stops(items[k + 1].ty)
    /\ items[k].ty = TyIdentifier => items[k + 1].ty \notin {LParen, DoubleColon}

\* C20: when a whole expression is followed by a token that is no operator
\* expr() can take (a literal, an identifier, a stray ) or , and the like),
\* expr() returns Ok with that expression and the Peekable holds that token,
\* pulled and not consumed, with nothing after it pulled; so too for a
\* token after a call.
C20_RestUnconsumed ==
    Parsed =>
       /\ \A k \in 1..(Len(items) - 1) :
             StopsAfter(k) =>
                /\ result = [kind |-> "Ok", val |-> RefTree(SubSeq(items, 1, k), GFull)]
                /\ parser.tokenizer = [pulled |-> k + 1, peeked |-> TRUE]
       /\ (Len(items) >= 5
             /\ SubSeq(items, 1, 4) = <<TkIdent, TkLParen, TkLit, TkRParen>>
             /\ items[5].ok /\ Stops(items[5].ty)) =>
                /\ result = [kind |-> "Ok", val |-> ExprCall(AtomName.path, <<AtomLit>>)]
                /\ parser.tokenizer = [pulled |-> 5, peeked |-> TRUE]

\* 1 2 has been parsed to the literal 1, with 2 pulled and left in the
\* Peekable
C20_Witness ==
    /\ Parsed
    /\ items = <<TkLit, TkLit>>
    /\ result = [kind |-> "Ok", val |-> AtomLit]
    /\ parser.tokenizer = [pulled |-> 2, peeked |-> TRUE]

====
